---- MODULE Spec2Model ----
(***************************************************************************)
(* A model of the overseer run engine: the in-memory stores of app.py, the *)
(* event journal, the node executor, the DAG scheduler, the background     *)
(* worker and replay of engine.py, and the context assembler of            *)
(* context.py.                                                             *)
(*                                                                         *)
(* Scheduling follows asyncio: one coroutine owns the event loop until it  *)
(* awaits something that suspends.  run_node has no such await, so the     *)
(* only suspension points are asyncio.gather in execute_graph and          *)
(* asyncio.sleep in background_worker.  The synchronous HTTP endpoints     *)
(* (create_run, create_graph) run on worker threads and may act at any     *)
(* time.                                                                   *)
(***************************************************************************)
EXTENDS Integers, Sequences, FiniteSets, TLC

\* ------------------------------------------------------------------ bounds
\* Number of POST /runs requests.
MaxRuns == 1
\* Number of POST /runs/{id}/replay requests.
MaxReplays == 1
\* Number of injected infrastructure faults (failing journal write, raising tool).
MaxFaults == 1
\* Number of POST /graphs requests.
MaxGraphs == 1
\* Number of replay requests when requests are served one after the other.
MaxSerial == 3

\* Largest budget_tokens of a context profile given to compile_context.
MaxBudget == 30
\* Largest len(str(scratchpad)) given to compile_context.
MaxScratch == 40
\* Largest len(str(repo_snippets)) given to compile_context.
MaxRepo == 80

\* Largest number of components of a path given to files.read and files.write.
MaxParts == 3
\* Smallest and largest tokens_needed given to choose_model, besides 0.
MinTokens == 59990
MaxTokens == 60010
\* Number of times choose_model is called with the same arguments.
MaxCalls == 2

\* The from_step values replay requests carry.
FromSteps == {"tester", "nosuch"}

VARIABLES
    graphs,     \* app.graphs: the names of the registered graphs
    objs,       \* the run records (dicts) ever created, by object identity
    runs,       \* app.runs: run id -> index in objs of the record stored under it
    events,     \* app.events: run id -> in-memory journal
    disk,       \* data/<run_id>/events.jsonl: run id -> durable journal
    tasks,      \* the coroutines on the event loop: the worker and the replay requests
    loop,       \* the task that owns the event loop, NoTask when all are suspended
    faults,     \* the number of faults injected so far
    nruns,      \* the number of POST /runs requests served
    probe       \* inputs and result of a function call checked alone

vars == <<graphs, objs, runs, events, disk, tasks, loop, faults, nruns, probe>>

engineVars == <<graphs, objs, runs, events, disk, tasks, loop, faults, nruns>>

\* ------------------------------------------------------------- the graphs
Edge(f, t, on, par, join) ==
    [from_node |-> f, to_node |-> t, on |-> on, parallel |-> par, join |-> join]

\* app.py startup: the seeded default graph.
DefaultDag ==
    << Edge("planner", "py_fixer", {}, TRUE, FALSE),
       Edge("planner", "fe_fixer", {}, TRUE, FALSE),
       Edge("planner", "test_writer", {}, TRUE, FALSE),
       Edge("py_fixer", "aggregator", {}, FALSE, TRUE),
       Edge("fe_fixer", "aggregator", {}, FALSE, TRUE),
       Edge("test_writer", "aggregator", {}, FALSE, TRUE),
       Edge("aggregator", "tester", {"patch_selected"}, FALSE, FALSE),
       Edge("tester", "security", {"tests_passed"}, FALSE, FALSE),
       Edge("security", "release", {"security_ok"}, FALSE, FALSE) >>

DefaultGraph == "git-to-prod-multi"

\* The graphs POST /graphs requests register (models.Graph accepts any edge list).
GraphNames ==
    {DefaultGraph, "diamond", "par-join", "guard-par", "cycle", "twice", "unknown"}

GraphDag(g) ==
    CASE g = DefaultGraph -> DefaultDag
      [] g = "diamond" ->
            << Edge("planner", "release", {}, FALSE, FALSE),
               Edge("planner", "security", {}, FALSE, FALSE),
               Edge("security", "release", {}, FALSE, FALSE) >>
      [] g = "par-join" ->
            << Edge("planner", "aggregator", {}, TRUE, TRUE),
               Edge("tester", "aggregator", {}, FALSE, TRUE) >>
      [] g = "guard-par" ->
            << Edge("tester", "security", {"tests_passed"}, TRUE, FALSE),
               Edge("security", "release", {"security_ok"}, FALSE, FALSE) >>
      [] g = "cycle" ->
            << Edge("planner", "tester", {}, FALSE, FALSE),
               Edge("tester", "planner", {}, FALSE, FALSE) >>
      [] g = "twice" ->
            << Edge("planner", "fe_fixer", {}, TRUE, FALSE),
               Edge("tester", "fe_fixer", {}, TRUE, FALSE) >>
      [] OTHER ->
            << Edge("lint", "release", {}, FALSE, FALSE) >>

\* ------------------------------------------------------- sequence helpers
Range(s) == {s[i] : i \in 1..Len(s)}

RECURSIVE Filter(_, _)
\* [x for x in s if x \notin drop]
Filter(s, drop) ==
    IF s = <<>> THEN <<>>
    ELSE IF Head(s) \in drop THEN Filter(Tail(s), drop)
         ELSE <<Head(s)>> \o Filter(Tail(s), drop)

\* list.remove(x): drops the first occurrence.
RECURSIVE RemoveFirst(_, _)
RemoveFirst(s, x) ==
    IF s = <<>> THEN <<>>
    ELSE IF Head(s) = x THEN Tail(s)
         ELSE <<Head(s)>> \o RemoveFirst(Tail(s), x)

\* The keys of a dict in insertion order, the keys being inserted in the order
\* of s: the first occurrences in s, in order.
Distinct(s) ==
    LET first == {i \in 1..Len(s) : \A j \in 1..(i - 1) : s[j] # s[i]}
    IN  [k \in 1..Cardinality(first) |->
            s[CHOOSE i \in first : Cardinality({j \in first : j <= i}) = k]]

RECURSIVE Flatten(_)
Flatten(ss) == IF ss = <<>> THEN <<>> ELSE Head(ss) \o Flatten(Tail(ss))

Get(f, k) == IF k \in DOMAIN f THEN f[k] ELSE <<>>

\* --------------------------------------------- execute_graph: the build
\* adj[node]: the outgoing edges of node, in the order of the edge list.
RECURSIVE Adj(_, _)
Adj(dag, node) ==
    IF dag = <<>> THEN <<>>
    ELSE IF Head(dag).from_node = node THEN <<Head(dag)>> \o Adj(Tail(dag), node)
         ELSE Adj(Tail(dag), node)

\* in_degree[n]: the number of edges into n.
InDegree(dag, n) == Cardinality({i \in 1..Len(dag) : dag[i].to_node = n})

\* The keys of in_degree, in insertion order: per edge to_node, then from_node.
InDegreeKeys(dag) ==
    Distinct(Flatten([i \in 1..Len(dag) |-> <<dag[i].to_node, dag[i].from_node>>]))

RECURSIVE SelectSeq2(_, _)
SelectSeq2(s, keep) ==
    IF s = <<>> THEN <<>>
    ELSE IF Head(s) \in keep THEN <<Head(s)>> \o SelectSeq2(Tail(s), keep)
         ELSE SelectSeq2(Tail(s), keep)

\* ready = [n for n in in_degree if in_degree[n] == 0]
StartNodes(dag) ==
    SelectSeq2(InDegreeKeys(dag),
               {n \in Range(InDegreeKeys(dag)) : InDegree(dag, n) = 0})

\* join_groups: the join nodes in insertion order, and the sources of each.
JoinKeys(dag) ==
    Distinct(Flatten([i \in 1..Len(dag) |->
        IF dag[i].join THEN <<dag[i].to_node>> ELSE <<>>]))

JoinSources(dag, j) ==
    {dag[i].from_node : i \in {k \in 1..Len(dag) : dag[k].join /\ dag[k].to_node = j}}

Nodes(dag) == Range(InDegreeKeys(dag))

\* What execute_graph builds from the edge list before its loop: adj, the
\* initial ready list and join_groups (keys in insertion order).
Build(dag) ==
    [adj |-> [n \in Nodes(dag) |-> Adj(dag, n)],
     ready |-> StartNodes(dag),
     join_keys |-> JoinKeys(dag),
     join_groups |-> [j \in Range(JoinKeys(dag)) |-> JoinSources(dag, j)]]

\* The build of every graph a request may register.
Built == [g \in GraphNames |-> Build(GraphDag(g))]

\* ------------------------------------------------------ the event journal
Event(rid, step, type, data) ==
    [run_id |-> rid, step |-> step, type |-> type, data |-> data]

\* emit_event on the journal pair J = [mem, disk]: the in-memory append always
\* happens; the durable append raises when ok is FALSE.
EmitEvent(J, rid, step, type, data, ok) ==
    LET e == Event(rid, step, type, data)
    IN  [mem  |-> (rid :> Append(Get(J.mem, rid), e)) @@ J.mem,
         disk |-> IF ok THEN (rid :> Append(Get(J.disk, rid), e)) @@ J.disk
                  ELSE J.disk]

\* replay_from's copy loop: the events before the first one whose step is from_step.
RECURSIVE PrefixUntil(_, _)
PrefixUntil(evs, from_step) ==
    IF evs = <<>> THEN <<>>
    ELSE IF Head(evs).step = from_step THEN <<>>
         ELSE <<Head(evs)>> \o PrefixUntil(Tail(evs), from_step)

\* ------------------------------------------------------ the node executor
\* The handlers whose body calls files.read, files.write or save_artifact
\* outside any try block.
ToolNodes == {"py_fixer", "test_writer", "release"}

\* The type of the handler's event.
HandlerType(node, passed) ==
    CASE node = "planner" -> "plan_ready"
      [] node = "py_fixer" -> "patch_created"
      [] node = "fe_fixer" -> "patch_created"
      [] node = "test_writer" -> "test_updated"
      [] node = "aggregator" -> "patch_selected"
      [] node = "tester" -> IF passed THEN "tests_passed" ELSE "tests_failed"
      [] node = "security" -> "security_ok"
      [] node = "release" -> "release_complete"
      [] OTHER -> "error"

\* What one invocation may meet: fail = 0 nothing, 1 the write of context_compiled
\* fails, 2 the handler body raises, 3 the write of the handler event fails,
\* 4 the write of node_done fails; passed is the verdict of tests.run().
NodeOutcomes(node, mayFail) ==
    [fail : {0} \cup (IF mayFail
                      THEN {1, 3, 4} \cup (IF node \in ToolNodes THEN {2} ELSE {})
                      ELSE {}),
     passed : IF node = "tester" THEN BOOLEAN ELSE {TRUE}]

\* The durable append of the event went through.
Written(x) == x.ok

\* The events of es = <<[e, ok], ...>> without the ok flag.
Plain(es) == [i \in 1..Len(es) |-> es[i].e]

\* emit_event for the events es = <<[e, ok], ...>> in turn.
EmitEvents(J, rid, es) ==
    [mem  |-> (rid :> Get(J.mem, rid) \o Plain(es)) @@ J.mem,
     disk |-> (rid :> Get(J.disk, rid) \o Plain(SelectSeq(es, Written))) @@ J.disk]

\* run_node emitting node_done with the result as it was before the handler
\* ran (result = {}).
NodeEventsStaleResult(rid, node, oc) ==
    LET result == {HandlerType(node, oc.passed)}
        ctx == [e |-> Event(rid, node, "context_compiled", {}), ok |-> oc.fail # 1]
        evt == [e |-> Event(rid, node, HandlerType(node, oc.passed), result),
                ok |-> oc.fail # 3]
        done == [e |-> Event(rid, node, "node_done", {}), ok |-> oc.fail # 4]
    IN  IF oc.fail \in {1, 2} THEN <<ctx>>
        ELSE IF oc.fail = 3 THEN <<ctx, evt>>
        ELSE <<ctx, evt, done>>

\* The emit_event calls of one run_node call, in order, up to the point where
\* it raises: context_compiled, the handler's event, node_done.
NodeEvents(rid, node, oc) ==
    LET result == {HandlerType(node, oc.passed)}
        ctx == [e |-> Event(rid, node, "context_compiled", {}), ok |-> oc.fail # 1]
        evt == [e |-> Event(rid, node, HandlerType(node, oc.passed), result),
                ok |-> oc.fail # 3]
        done == [e |-> Event(rid, node, "node_done", result), ok |-> oc.fail # 4]
    IN  IF oc.fail \in {1, 2} THEN <<ctx>>
        ELSE IF oc.fail = 3 THEN <<ctx, evt>>
        ELSE <<ctx, evt, done>>

\* run_node: returns the journal pair and whether an exception left the call.
RunNode(J, rid, node, oc) ==
    [J |-> EmitEvents(J, rid, NodeEvents(rid, node, oc)), raised |-> oc.fail # 0]

\* ------------------------------------------------------------- the tasks
Worker == 0
ReplayTasks == 1..(IF MaxReplays > MaxSerial THEN MaxReplays ELSE MaxSerial)
TaskIds == {Worker} \cup ReplayTasks
NoTask == -1

NoRun == [base |-> 0, replay |-> <<>>]

\* The locals of a coroutine: of background_worker (pending), of replay_from
\* (from_step, parent, k) and of the execute_graph it is inside.
IdleTask(pc) ==
    [pc |-> pc, run_id |-> NoRun, run |-> 0, ready |-> <<>>, completed |-> {},
     parallel_nodes |-> <<>>, sequential_node |-> "", exc |-> FALSE, pending |-> <<>>, parent |-> NoRun, k |-> 0]

J0 == [mem |-> events, disk |-> disk]

MayFail == faults < MaxFaults

WriteOutcomes == IF MayFail THEN BOOLEAN ELSE {TRUE}

Status(rid) == objs[runs[rid]].status

GraphOf(rid) == GraphDag(objs[runs[rid]].graph)

\* The state after startup(): the default graph is seeded, the stores are empty
\* and the worker sleeps.  f faults are counted as already spent.
BootEngine(f) ==
    /\ graphs = {DefaultGraph}
    /\ objs = <<>>
    /\ runs = <<>>
    /\ events = <<>>
    /\ disk = <<>>
    /\ tasks = [t \in TaskIds |-> IdleTask(IF t = Worker THEN "sleep" ELSE "new")]
    /\ loop = NoTask
    /\ faults = f
    /\ nruns = 0

Boot(f) == BootEngine(f) /\ probe = <<>>

Init == Boot(0)

\* ------------------------------------------------- the HTTP control plane
\* POST /graphs
create_graph(g) ==
    /\ Cardinality(graphs) < 1 + MaxGraphs
    /\ nruns < MaxRuns
    /\ g \notin graphs
    /\ graphs' = graphs \cup {g}
    /\ UNCHANGED <<objs, runs, events, disk, tasks, loop, faults, nruns, probe>>

\* POST /runs
create_run(g) ==
    /\ nruns < MaxRuns
    /\ g \in graphs
    /\ LET run_id == [base |-> Cardinality(DOMAIN runs) + 1, replay |-> <<>>]
       IN  /\ objs' = Append(objs, [id |-> run_id, graph |-> g, status |-> "pending",
                                    parent_run |-> NoRun])
           /\ runs' = (run_id :> Len(objs) + 1) @@ runs
           /\ events' = (run_id :> <<>>) @@ events
    /\ nruns' = nruns + 1
    /\ UNCHANGED <<graphs, disk, tasks, loop, faults, probe>>

\* ---------------------------------------------------- background_worker
\* The records of runs.values() whose status is pending, in dict order.  Only
\* records made by create_run stay pending across a suspension, and their ids
\* are numbered in creation order.
RECURSIVE InOrder(_)
InOrder(ids) ==
    IF ids = {} THEN <<>>
    ELSE LET first == CHOOSE i \in ids : \A j \in ids : i.base <= j.base
         IN  <<runs[first]>> \o InOrder(ids \ {first})

\* The worker's filter with a status no run ever has.
PendingRunsQueued == InOrder({rid \in DOMAIN runs : Status(rid) = "queued"})

PendingRuns == InOrder({rid \in DOMAIN runs : Status(rid) = "pending"})

\* asyncio.sleep returns; pending = [r for r in runs.values() if ...]
WorkerWake ==
    /\ loop = NoTask
    /\ tasks[Worker].pc = "sleep"
    /\ tasks' = [tasks EXCEPT ![Worker].pc = "pick", ![Worker].pending = PendingRuns]
    /\ loop' = Worker
    /\ UNCHANGED <<graphs, objs, runs, events, disk, faults, nruns, probe>>

\* for run in pending: run["status"] = "running"; await execute_graph(run["id"])
WorkerPick ==
    /\ loop = Worker
    /\ tasks[Worker].pc = "pick"
    /\ IF tasks[Worker].pending = <<>>
       THEN /\ tasks' = [tasks EXCEPT ![Worker].pc = "sleep"]
            /\ loop' = NoTask
            /\ objs' = objs
       ELSE LET o == Head(tasks[Worker].pending)
            IN  /\ objs' = [objs EXCEPT ![o].status = "running"]
                /\ tasks' = [tasks EXCEPT ![Worker].pc = "start",
                                          ![Worker].run_id = objs[o].id]
                /\ loop' = loop
    /\ UNCHANGED <<graphs, runs, events, disk, faults, nruns, probe>>

\* execute_graph returned or raised: except Exception: run["status"] = "failed"
WorkerNext ==
    /\ loop = Worker
    /\ tasks[Worker].pc \in {"return", "raise"}
    /\ LET o == Head(tasks[Worker].pending)
       IN  objs' = IF tasks[Worker].pc = "raise"
                   THEN [objs EXCEPT ![o].status = "failed"]
                   ELSE objs
    /\ tasks' = [tasks EXCEPT ![Worker].pc = "pick",
                              ![Worker].pending = Tail(tasks[Worker].pending)]
    /\ UNCHANGED <<graphs, runs, events, disk, loop, faults, nruns, probe>>

\* ------------------------------------------------------------ replay_from
ReplayId(run_id, from_step) ==
    [base |-> run_id.base, replay |-> Append(run_id.replay, from_step)]

\* POST /runs/{id}/replay, up to the call of execute_graph.
replay_from(t, run_id, from_step) ==
    /\ loop = NoTask
    /\ tasks[t].pc = "new"
    /\ t = 1 \/ tasks[t - 1].pc # "new"
    /\ run_id \in DOMAIN runs
    /\ LET new_run_id == ReplayId(run_id, from_step)
           new_events == PrefixUntil(Get(events, run_id), from_step)
       IN  /\ objs' = Append(objs, [id |-> new_run_id,
                                    graph |-> objs[runs[run_id]].graph,
                                    status |-> "pending",
                                    parent_run |-> run_id])
           /\ runs' = (new_run_id :> Len(objs) + 1) @@ runs
           /\ events' = (new_run_id :> new_events) @@ events
           /\ tasks' = [tasks EXCEPT ![t].pc = "start",
                                     ![t].run_id = new_run_id,
                                     ![t].parent = run_id,
                                     ![t].k = Len(new_events)]
    /\ loop' = t
    /\ UNCHANGED <<graphs, disk, faults, nruns, probe>>

\* execute_graph returned (the handler answers) or raised (the request fails).
ReplayEnd(t) ==
    /\ t \in ReplayTasks
    /\ loop = t
    /\ tasks[t].pc \in {"return", "raise"}
    /\ tasks' = [tasks EXCEPT ![t].pc = IF tasks[t].pc = "return" THEN "ok" ELSE "error"]
    /\ loop' = NoTask
    /\ UNCHANGED <<graphs, objs, runs, events, disk, faults, nruns, probe>>

\* ---------------------------------------------------------- execute_graph
\* edges and edges[0].get("parallel")
IsFanOut(edges) == edges # <<>> /\ edges[1].parallel

\* The children scheduled for a fan-out node: the targets of all its edges.
Children(edges) == [i \in 1..Len(edges) |-> edges[i].to_node]

\* The edge condition left out: every edge counts as met.
GuardAlways(edge, evs, node) == TRUE

\* The edge condition of the sequential path: no `on`, or some event of the
\* node with a type in `on`.
GuardFires(edge, evs, node) ==
    \/ edge.on = {}
    \/ \E i \in 1..Len(evs) : evs[i].step = node /\ evs[i].type \in edge.on

\* all(s in completed for s in join_groups[child]), for a child in join_groups.
JoinComplete(G, child, completed) ==
    child \in DOMAIN G.join_groups => G.join_groups[child] \subseteq completed

\* The loop over adj[sequential_node] that adds children to ready.
RECURSIVE Enqueue(_, _, _, _, _, _)
Enqueue(edges, rdy, completed, evs, node, G) ==
    IF edges = <<>> THEN rdy
    ELSE LET edge == Head(edges)
             child == edge.to_node
             add == /\ GuardFires(edge, evs, node)
                    /\ JoinComplete(G, child, completed)
                    /\ child \notin Range(rdy)
                    /\ child \notin completed
         IN  Enqueue(Tail(edges), IF add THEN Append(rdy, child) ELSE rdy,
                     completed, evs, node, G)

\* The loop over join_groups left out: no join node is made ready.
JoinNever(G, completed) == <<>>

\* The loop over join_groups after a parallel batch.
JoinReady(G, completed) ==
    SelectSeq2(G.join_keys,
               {j \in Range(G.join_keys) :
                    G.join_groups[j] \subseteq completed /\ j \notin completed})

\* After the batch: ready without the batch and the completed nodes, then the
\* join nodes whose sources are complete.
ReadyAfterBatch(G, rdy, parallel_nodes, completed) ==
    Filter(rdy, Range(parallel_nodes) \cup completed) \o JoinReady(G, completed)

\* The locals of execute_graph and the journal, as the scheduler loop sees them.
Local(t) ==
    [J |-> J0, faults |-> faults, pc |-> "loop",
     ready |-> tasks[t].ready, completed |-> tasks[t].completed,
     parallel_nodes |-> tasks[t].parallel_nodes,
     sequential_node |-> tasks[t].sequential_node]

\* result = await run_node(...); completed.add(node): one result per outcome
\* of the invocation; pc is "except" when the call raised.
Invoke(L, rid, node) ==
    { LET R == RunNode(L.J, rid, node, oc)
      IN  [L EXCEPT !.J = R.J,
                    !.faults = IF oc.fail # 0 THEN @ + 1 ELSE @,
                    !.pc = IF R.raised THEN "except" ELSE "ok",
                    !.completed = IF R.raised THEN @ ELSE @ \cup {node}]
      : oc \in NodeOutcomes(node, L.faults < MaxFaults) }

\* if node not in completed: run it
InvokeOnce(L, rid, node) ==
    IF node \in L.completed THEN {[L EXCEPT !.pc = "ok"]} ELSE Invoke(L, rid, node)

\* The sequential path (lines 253-284).
Sequential(L, rid, G, node) ==
    { IF M.pc = "except" THEN M
      ELSE [M EXCEPT !.pc = "loop",
                     !.ready = Enqueue(G.adj[node], RemoveFirst(M.ready, node),
                                       M.completed, Get(M.J.mem, rid), node, G)]
      : M \in InvokeOnce(L, rid, node) }

\* `for node in ready` from index idx on (lines 219-235), then the branch
\* taken: a fan-out node is run if it is not completed and its children are
\* scheduled; any other node becomes the sequential node and ends the loop.
RECURSIVE ForLoop(_, _, _, _)
ForLoop(L, rid, G, idx) ==
    IF idx > Len(L.ready) THEN {[L EXCEPT !.pc = "gather"]}
    ELSE LET node == L.ready[idx]
             edges == G.adj[node]
         IN  IF IsFanOut(edges)
             THEN UNION { IF M.pc = "except" THEN {M}
                          ELSE ForLoop([M EXCEPT !.parallel_nodes = @ \o Children(edges)],
                                       rid, G, idx + 1)
                          : M \in InvokeOnce(L, rid, node) }
             ELSE IF L.parallel_nodes # <<>>
                  THEN {[L EXCEPT !.pc = "gather", !.sequential_node = node]}
                  ELSE Sequential([L EXCEPT !.sequential_node = node], rid, G, node)

\* `while ready:` up to the next suspension (pc "gather"), the end of the loop
\* (pc "finish") or an exception (pc "except").
RECURSIVE Schedule(_, _, _)
Schedule(L, rid, G) ==
    IF L.ready = <<>> THEN {[L EXCEPT !.pc = "finish"]}
    ELSE UNION { IF M.pc = "loop" THEN Schedule(M, rid, G) ELSE {M}
                 : M \in ForLoop([L EXCEPT !.parallel_nodes = <<>>,
                                           !.sequential_node = ""], rid, G, 1) }

\* The batch as it would run if run_node yielded to the event loop after each
\* emit_event: the siblings' events alternate.
RunBatchInterleaved(J, rid, nodes, ocs) ==
    [J |-> EmitEvents(J, rid,
               Flatten([k \in 1..3 |->
                   Flatten([i \in 1..Len(nodes) |->
                       IF k <= Len(NodeEvents(rid, nodes[i], ocs[i]))
                       THEN <<NodeEvents(rid, nodes[i], ocs[i])[k]>>
                       ELSE <<>>])])),
     raised |-> \E i \in 1..Len(nodes) : ocs[i].fail # 0]

\* The batch given to asyncio.gather (lines 231, 239).  The tasks are queued
\* on the event loop one after the other, so they run back to back, in order;
\* an exception of one of them reaches execute_graph after the batch has run.
RunBatch(J, rid, nodes, ocs) ==
    [J |-> EmitEvents(J, rid, Flatten([i \in 1..Len(nodes) |->
                                          NodeEvents(rid, nodes[i], ocs[i])])),
     raised |-> \E i \in 1..Len(nodes) : ocs[i].fail # 0]

NumFaults(ocs) == Cardinality({i \in 1..Len(ocs) : ocs[i].fail # 0})

BatchOutcomes(nodes) ==
    {ocs \in [1..Len(nodes) -> [fail : 0..4, passed : BOOLEAN]] :
        /\ \A i \in 1..Len(nodes) : ocs[i] \in NodeOutcomes(nodes[i], MayFail)
        /\ faults + NumFaults(ocs) <= MaxFaults}

\* The task goes on from the local state M; asyncio.gather suspends it.
Continue(t, M, o) ==
    /\ tasks' = [tasks EXCEPT ![t].pc = M.pc,
                              ![t].run = o,
                              ![t].ready = M.ready,
                              ![t].completed = M.completed,
                              ![t].parallel_nodes = M.parallel_nodes,
                              ![t].sequential_node = M.sequential_node]
    /\ events' = M.J.mem
    /\ disk' = M.J.disk
    /\ faults' = M.faults
    /\ loop' = IF M.pc = "gather" THEN NoTask ELSE t

\* Lines 179-210 and the loop up to its first suspension:
\* run["status"] = "running", run_started, the build, while ready.
Start(t) ==
    /\ loop = t
    /\ tasks[t].pc = "start"
    /\ LET rid == tasks[t].run_id
           o == runs[rid]
           G == Built[objs[o].graph]
       IN  /\ objs' = [objs EXCEPT ![o].status = "running"]
           /\ \E ok \in WriteOutcomes :
                \E L \in {[Local(t) EXCEPT
                              !.J = EmitEvent(J0, rid, "system", "run_started",
                                              {objs[o].graph}, ok),
                              !.faults = IF ok THEN @ ELSE @ + 1,
                              !.ready = G.ready,
                              !.completed = {}]} :
                  \E M \in (IF ok THEN Schedule(L, rid, G)
                            ELSE {[L EXCEPT !.pc = "except"]}) : Continue(t, M, o)
    /\ UNCHANGED <<graphs, runs, nruns, probe>>

\* results = await asyncio.gather(*parallel_tasks): the batch runs.
Gather(t) ==
    /\ loop = NoTask
    /\ tasks[t].pc = "gather"
    /\ LET T == tasks[t]
       IN  \E ocs \in BatchOutcomes(T.parallel_nodes) :
             \E R \in {RunBatch(J0, T.run_id, T.parallel_nodes, ocs)} :
                 /\ events' = R.J.mem
                 /\ disk' = R.J.disk
                 /\ faults' = faults + NumFaults(ocs)
                 /\ tasks' = [tasks EXCEPT ![t].pc = "gathered",
                                           ![t].exc = R.raised]
    /\ UNCHANGED <<graphs, objs, runs, loop, nruns, probe>>

\* execute_graph resumes after the batch (lines 240-251) and goes on with the
\* loop up to its next suspension.
AfterGather(t) ==
    /\ loop = NoTask
    /\ tasks[t].pc = "gathered"
    /\ LET T == tasks[t]
           G == Built[objs[T.run].graph]
           done == T.completed \cup Range(T.parallel_nodes)
       IN  \E L \in {[Local(t) EXCEPT
                         !.completed = done,
                         !.ready = ReadyAfterBatch(G, T.ready, T.parallel_nodes, done)]} :
             \E M \in (IF T.exc THEN {[Local(t) EXCEPT !.pc = "except"]}
                       ELSE Schedule(L, T.run_id, G)) :
               Continue(t, M, T.run)
    /\ UNCHANGED <<graphs, objs, runs, nruns, probe>>

\* Line 288: run["status"] = "succeeded"
Finish(t) ==
    /\ loop = t
    /\ tasks[t].pc = "finish"
    /\ objs' = [objs EXCEPT ![tasks[t].run].status = "succeeded"]
    /\ tasks' = [tasks EXCEPT ![t].pc = "completed"]
    /\ UNCHANGED <<graphs, runs, events, disk, loop, faults, nruns, probe>>

\* Line 289: emit_event(run_id, "system", "run_completed", ...)
Completed(t) ==
    /\ loop = t
    /\ tasks[t].pc = "completed"
    /\ \E ok \in WriteOutcomes :
         LET J == EmitEvent(J0, tasks[t].run_id, "system", "run_completed",
                            tasks[t].completed, ok)
         IN  /\ events' = J.mem
             /\ disk' = J.disk
             /\ faults' = IF ok THEN faults ELSE faults + 1
             /\ tasks' = [tasks EXCEPT ![t].pc = IF ok THEN "return" ELSE "except"]
    /\ UNCHANGED <<graphs, objs, runs, loop, nruns, probe>>

\* Lines 291-294: run["status"] = "failed"; run_failed; raise
Except(t) ==
    /\ loop = t
    /\ tasks[t].pc = "except"
    /\ \E ok \in WriteOutcomes :
         LET J == EmitEvent(J0, tasks[t].run_id, "system", "run_failed", {"error"}, ok)
         IN  /\ events' = J.mem
             /\ disk' = J.disk
             /\ faults' = IF ok THEN faults ELSE faults + 1
    /\ objs' = [objs EXCEPT ![tasks[t].run].status = "failed"]
    /\ tasks' = [tasks EXCEPT ![t].pc = "raise"]
    /\ UNCHANGED <<graphs, runs, loop, nruns, probe>>

execute_graph(t) ==
    \/ Start(t)
    \/ Gather(t)
    \/ AfterGather(t)
    \/ Finish(t)
    \/ Completed(t)
    \/ Except(t)

Requests ==
    \/ \E g \in GraphNames : create_graph(g)
    \/ \E g \in GraphNames : create_run(g)

background_worker ==
    \/ WorkerWake
    \/ WorkerPick
    \/ WorkerNext

Next ==
    \/ Requests
    \/ background_worker
    \/ \E t \in 1..MaxReplays, rid \in DOMAIN runs, s \in FromSteps : replay_from(t, rid, s)
    \/ \E t \in ReplayTasks : ReplayEnd(t)
    \/ \E t \in TaskIds : execute_graph(t)

\* Every request and every fault, under asyncio's scheduling.
Spec == Init /\ [][Next]_vars

\* Runs made by POST /runs only.
NextFresh ==
    \/ Requests
    \/ background_worker
    \/ execute_graph(Worker)

SpecFresh == Init /\ [][NextFresh]_vars

\* Runs of the default graph made by POST /runs only.
NextDefault ==
    \/ create_run(DefaultGraph)
    \/ background_worker
    \/ execute_graph(Worker)

SpecDefault == Init /\ [][NextDefault]_vars

\* The worker never stops polling and a coroutine that can go on does.
FairDefault == SpecDefault /\ WF_vars(background_worker) /\ WF_vars(execute_graph(Worker))

\* No execution is under way: the worker sleeps and every replay request that
\* arrived has been answered.
Quiescent == \A t \in TaskIds : tasks[t].pc \in {"sleep", "new", "ok", "error"}

\* Replay requests that arrive one after the other, each when no execution is
\* under way, on runs of the default graph, each from step "tester".
NextSerial ==
    \/ create_run(DefaultGraph)
    \/ background_worker
    \/ \E t \in 1..MaxSerial, rid \in DOMAIN runs :
          Quiescent /\ replay_from(t, rid, "tester")
    \/ \E t \in ReplayTasks : ReplayEnd(t)
    \/ \E t \in TaskIds : execute_graph(t)

SpecSerial == Init /\ [][NextSerial]_vars

\* -------------------------------------------------------- compile_context
\* len(str(policy_docs)) of the policy stub.
PolicyChars == 68

\* len(str([])) and len(str({})): the shortest scratchpad and repo_snippets.
EmptyChars == 2

\* compile_context without the assignment total_tokens = budget after a trim.
compile_context_total_kept(budget, scratchpad, repo_snippets) ==
    LET scratchpad_est == scratchpad \div 4
        repo_est == repo_snippets \div 4
        policy_est == PolicyChars \div 4
        total_tokens == scratchpad_est + repo_est + policy_est
        trim_amount == total_tokens - budget
        max_chars == (repo_est - trim_amount) * 4
        Manifest(repo, total, drops, chars) ==
            [sections |-> [scratchpad |-> scratchpad_est, repo_snippets |-> repo,
                           policy_docs |-> policy_est],
             total_tokens |-> total, drops |-> drops, repo_chars |-> chars]
    IN  IF total_tokens > budget
        THEN IF repo_est > trim_amount
             THEN IF repo_snippets > max_chars
                  THEN Manifest(repo_est - trim_amount, total_tokens,
                                <<"repo_snippets trimmed">>, max_chars)
                  ELSE Manifest(repo_est - trim_amount, total_tokens, <<>>, repo_snippets)
             ELSE Manifest(0, scratchpad_est + policy_est,
                           <<"repo_snippets dropped entirely">>, EmptyChars)
        ELSE Manifest(repo_est, total_tokens, <<>>, repo_snippets)

\* compile_context, by the lengths it computes with: budget is the profile's
\* budget_tokens, scratchpad and repo_snippets are len(str(...)) of the two
\* gathered sections.  Returns the manifest, and the length of the repo
\* section of the bundle.
compile_context(budget, scratchpad, repo_snippets) ==
    LET scratchpad_est == scratchpad \div 4
        repo_est == repo_snippets \div 4
        policy_est == PolicyChars \div 4
        total_tokens == scratchpad_est + repo_est + policy_est
        trim_amount == total_tokens - budget
        max_chars == (repo_est - trim_amount) * 4
        Manifest(repo, total, drops, chars) ==
            [sections |-> [scratchpad |-> scratchpad_est, repo_snippets |-> repo,
                           policy_docs |-> policy_est],
             total_tokens |-> total, drops |-> drops, repo_chars |-> chars]
    IN  IF total_tokens > budget
        THEN IF repo_est > trim_amount
             THEN IF repo_snippets > max_chars
                  THEN Manifest(repo_est - trim_amount, budget,
                                <<"repo_snippets trimmed">>, max_chars)
                  ELSE Manifest(repo_est - trim_amount, budget, <<>>, repo_snippets)
             ELSE Manifest(0, scratchpad_est + policy_est,
                           <<"repo_snippets dropped entirely">>, EmptyChars)
        ELSE Manifest(repo_est, total_tokens, <<>>, repo_snippets)

\* The calls of compile_context looked at alone: any budget and any sizes.
Calls ==
    [budget : 0..MaxBudget, scratchpad : EmptyChars..MaxScratch,
     repo_snippets : EmptyChars..MaxRepo, called : {FALSE},
     manifest : {compile_context(0, 0, 0)}]

InitCtx == BootEngine(0) /\ probe \in Calls

\* ctx = compile_context(...)
Compile ==
    /\ ~probe.called
    /\ probe' = [probe EXCEPT
                    !.called = TRUE,
                    !.manifest = compile_context(probe.budget, probe.scratchpad,
                                                 probe.repo_snippets)]
    /\ UNCHANGED engineVars

SpecCtx == InitCtx /\ [][Compile]_vars

\* ------------------------------------------------------------- run status
\* The status changes a run record may go through.
StatusSteps ==
    {<<"pending", "running">>, <<"running", "succeeded">>, <<"running", "failed">>}

\* C1: the status of every run, fresh or replay child, changes only along
\* pending -> running -> succeeded or pending -> running -> failed, and never
\* changes again once it is succeeded or failed.
StatusMonotonic ==
    [][\A rid \in DOMAIN runs :
          \/ Status(rid)' = Status(rid)
          \/ <<Status(rid), Status(rid)'>> \in StatusSteps]_vars

\* ---------------------------------------------------------------- ordering
\* The condition of an edge is met by the journal evs.
Fired(e, evs) ==
    \/ e.on = {}
    \/ \E i \in 1..Len(evs) : evs[i].step = e.from_node /\ evs[i].type \in e.on

\* The positions in journal evs of the events of step n.
At(evs, n) == {i \in 1..Len(evs) : evs[i].step = n}

\* The positions in the journal of run rid of the events its own execution
\* appended (a copied event keeps the run_id of the run that emitted it).
Own(rid) == {i \in 1..Len(events[rid]) : events[rid][i].run_id = rid}

\* C2: for every edge A -> B whose condition is met, every event of A precedes
\* every event of B in the journal of the run.
EdgeOrder ==
    \A rid \in DOMAIN runs :
        LET dag == GraphOf(rid)
            evs == events[rid]
        IN  \A n \in 1..Len(dag) :
                Fired(dag[n], evs) =>
                    \A i \in At(evs, dag[n].from_node), j \in At(evs, dag[n].to_node) :
                        i < j

\* C3: an event of a join node emitted by the run is preceded by a node_done
\* of every source of the join.
JoinAfterSources ==
    \A rid \in DOMAIN runs :
        LET dag == GraphOf(rid)
            evs == events[rid]
        IN  \A i \in Own(rid) :
                evs[i].step \in Range(JoinKeys(dag)) =>
                    \A s \in JoinSources(dag, evs[i].step) :
                        \E j \in 1..(i - 1) : evs[j].step = s /\ evs[j].type = "node_done"

\* The edges of dag into node n.
Incoming(dag, n) == {dag[i] : i \in {k \in 1..Len(dag) : dag[k].to_node = n}}

\* C4: a node all of whose incoming edges carry a condition is executed only
\* if the journal holds, for one of them, an event of the source with a type
\* in the condition, whatever the parallel and join flags of the edges.
GuardedTarget ==
    \A rid \in DOMAIN runs :
        LET dag == GraphOf(rid)
            evs == events[rid]
        IN  \A i \in Own(rid) :
                LET inc == Incoming(dag, evs[i].step)
                IN  (inc # {} /\ \A e \in inc : e.on # {}) =>
                        \E e \in inc : e.on # {} /\ Fired(e, evs)

\* ------------------------------------------------------------------ replay
\* The run was made by a replay request.
IsChild(rid) == rid.replay # <<>>

\* The from_step of the request that made child rid.
FromStep(rid) == rid.replay[Len(rid.replay)]

\* The positions in the journal of child rid of the events copied from its parent.
Copied(rid) == (1..Len(events[rid])) \ Own(rid)

\* C5: the first k events of the child's journal are the first k events of the
\* parent's journal, k being the number of events the request copied, and this
\* stays true however parent and child run on afterwards.
PrefixLaw ==
    \A t \in ReplayTasks :
        tasks[t].pc # "new" =>
            LET child == events[tasks[t].run_id]
                parent == events[tasks[t].parent]
                k == tasks[t].k
            IN  /\ Len(child) >= k
                /\ Len(parent) >= k
                /\ SubSeq(child, 1, k) = SubSeq(parent, 1, k)

\* C6: a replay child never executes a node that has a node_done event in the
\* prefix copied from its parent.
PrefixCompleted ==
    \A rid \in DOMAIN runs :
        IsChild(rid) =>
            \A i \in Copied(rid), j \in Own(rid) :
                events[rid][i].type = "node_done" =>
                    events[rid][j].step # events[rid][i].step

\* C7: a replay child whose from_step is the step of no event of the parent's
\* journal (here: of no node of the graph) executes no node: its own execution
\* appends no context_compiled, handler or node_done event.
AbsentStepRunsNothing ==
    \A rid \in DOMAIN runs :
        (IsChild(rid) /\ FromStep(rid) \notin Nodes(GraphOf(rid)) \cup {"system"}) =>
            \A i \in Own(rid) : events[rid][i].step = "system"

\* ------------------------------------------------------------ the manifest
\* The total compile_context computes before it enforces the budget.
TotalBefore == probe.scratchpad \div 4 + probe.repo_snippets \div 4 + PolicyChars \div 4

\* C8: for any budget and any sizes of the sections, manifest.total_tokens is
\* at most the budget, and drops is not empty when the total before
\* enforcement exceeded the budget.
WithinBudget ==
    probe.called =>
        /\ probe.manifest.total_tokens <= probe.budget
        /\ TotalBefore > probe.budget => probe.manifest.drops # <<>>

\* ------------------------------------------------------- the default graph
\* The ids of the runs POST /runs makes when there is no replay.
FreshIds == {[base |-> n, replay |-> <<>>] : n \in 1..MaxRuns}

\* The fresh runs of the default graph.
DefaultRuns == {rid \in DOMAIN runs : ~IsChild(rid) /\ objs[runs[rid]].graph = DefaultGraph}

\* The journal of run rid holds an event of this step and type.
Has(rid, step, type) ==
    \E i \in 1..Len(events[rid]) :
        events[rid][i].step = step /\ events[rid][i].type = type

\* Every event of a step of A precedes every event of a step of B.
Before(rid, A, B) ==
    \A i \in 1..Len(events[rid]), j \in 1..Len(events[rid]) :
        (events[rid][i].step \in A /\ events[rid][j].step \in B) => i < j

Fixers == {"py_fixer", "fe_fixer", "test_writer"}

\* The order of the happy path.
HappyOrder(rid) ==
    /\ Before(rid, {"planner"}, Fixers)
    /\ Before(rid, Fixers, {"aggregator"})
    /\ Before(rid, {"aggregator"}, {"tester"})
    /\ Before(rid, {"tester"}, {"security"})
    /\ Before(rid, {"security"}, {"release"})

\* Every one of the eight nodes of the default graph has been executed.
AllEight(rid) == \A n \in Nodes(DefaultDag) : Has(rid, n, "node_done")

\* The run has ended as the happy path ends.
HappyEnd(rid) == Status(rid) = "succeeded" /\ AllEight(rid) /\ HappyOrder(rid)

\* C9: a fresh run of the default graph emits the events of planner, then
\* those of the three fixers, then aggregator, tester, security, release; when
\* tests pass and nothing raises, every one of the eight nodes is executed and
\* the status eventually becomes succeeded.
HappyPath ==
    /\ [](\A rid \in DefaultRuns :
            /\ HappyOrder(rid)
            /\ (Has(rid, "system", "run_completed") /\ Has(rid, "tester", "tests_passed")
                    /\ ~Has(rid, "system", "run_failed")) => HappyEnd(rid))
    /\ \A rid \in FreshIds :
            (rid \in DefaultRuns)
                ~> (/\ rid \in DefaultRuns
                    /\ \/ HappyEnd(rid)
                       \/ Has(rid, "tester", "tests_failed")
                       \/ Has(rid, "system", "run_failed"))

\* A fresh run of the default graph whose tests passed has ended succeeded.
HappyPathReached ==
    \E rid \in DefaultRuns :
        /\ Has(rid, "tester", "tests_passed")
        /\ Has(rid, "release", "node_done")
        /\ Has(rid, "system", "run_completed")
        /\ Status(rid) = "succeeded"

\* C10: on the default graph, once tester emits tests_failed no event of
\* security or release enters the journal, the completed_nodes of
\* run_completed do not hold security, and the run ends succeeded.
TestsFailedStops ==
    \A rid \in DefaultRuns :
        Has(rid, "tester", "tests_failed") =>
            /\ At(events[rid], "security") = {}
            /\ At(events[rid], "release") = {}
            /\ \A i \in 1..Len(events[rid]) :
                   events[rid][i].type = "run_completed" =>
                       /\ "security" \notin events[rid][i].data
                       /\ "tester" \in events[rid][i].data
                       /\ ~Has(rid, "system", "run_failed") => Status(rid) = "succeeded"

\* A fresh run of the default graph whose tests failed has ended succeeded.
TestsFailedReached ==
    \E rid \in DefaultRuns :
        /\ Has(rid, "tester", "tests_failed")
        /\ Has(rid, "system", "run_completed")
        /\ Status(rid) = "succeeded"

\* ------------------------------------------------------------------ cycles
\* The targets of the edges of dag that leave a node of S.
Succ(dag, S) == {dag[i].to_node : i \in {k \in 1..Len(dag) : dag[k].from_node \in S}}

\* The nodes reachable from S along the edges of dag, S included.
RECURSIVE Reach(_, _)
Reach(dag, S) ==
    IF Succ(dag, S) \subseteq S THEN S ELSE Reach(dag, S \cup Succ(dag, S))

\* Some node of dag is reachable from itself.
HasCycle(dag) == \E n \in Nodes(dag) : n \in Reach(dag, Succ(dag, {n}))

\* C11: no run of a graph whose edge list contains a cycle ever has status
\* succeeded.
CyclicNeverSucceeds ==
    \A rid \in DOMAIN runs : HasCycle(GraphOf(rid)) => Status(rid) # "succeeded"

\* ------------------------------------------------------------ replay frame
\* The step is a call of replay_from: a record with a parent is created.
IsReplayStep ==
    /\ Len(objs') = Len(objs) + 1
    /\ objs'[Len(objs')].parent_run # NoRun

\* C12: every call of replay_from creates the child under an id no existing
\* run has, with parent_run an existing run, and leaves the record and the
\* journal of every existing run unchanged.
ReplayFrame ==
    [][IsReplayStep =>
          /\ objs'[Len(objs')].id \notin DOMAIN runs
          /\ objs'[Len(objs')].parent_run \in DOMAIN runs
          /\ \A rid \in DOMAIN runs :
                /\ runs'[rid] = runs[rid]
                /\ objs'[runs[rid]] = objs[runs[rid]]
                /\ events'[rid] = events[rid]]_vars

\* ------------------------------------------------------------- append-only
\* Sequence a is a prefix of sequence b.
IsPrefix(a, b) == Len(a) <= Len(b) /\ SubSeq(b, 1, Len(a)) = a

\* C13: in every step the journal of every run before the step is a prefix of
\* its journal after the step.
AppendOnly ==
    [][\A rid \in DOMAIN events :
          rid \in DOMAIN events' /\ IsPrefix(events[rid], events'[rid])]_vars

\* ------------------------------------------------------- a handler raises
\* The event was appended by the execution of run rid itself.
IsOwn(rid, e) == e.run_id = rid

\* Every emit_event of the execution of run rid wrote its event to disk, so no
\* exception of the execution came from emit_event.
AllWritten(rid) ==
    SelectSeq(events[rid], LAMBDA e : IsOwn(rid, e)) = Get(disk, rid)

\* C14: when no exception comes from emit_event, so that the only exception
\* is one a node handler raised, every invocation that began (its
\* context_compiled is in the journal) also emitted its node_done, and the run
\* is not marked failed.
HandlerRaiseCaught ==
    \A rid \in DOMAIN runs :
        AllWritten(rid) =>
            /\ Status(rid) # "failed"
            /\ \A i \in Own(rid) :
                  events[rid][i].type = "context_compiled" =>
                      \E j \in Own(rid) :
                          /\ j > i
                          /\ events[rid][j].step = events[rid][i].step
                          /\ events[rid][j].type = "node_done"

\* ------------------------------------------------------ the terminal event
\* The number of events of the given type the execution of run rid appended.
Count(rid, type) ==
    Cardinality({i \in Own(rid) : events[rid][i].type = type})

\* C15: when execute_graph has ended, the journal of its run holds exactly one
\* of run_completed and run_failed, the status is succeeded exactly when that
\* one is run_completed, and an execution ended by an exception has status
\* failed and run_failed in the journal.
OneTerminalEvent ==
    \A t \in TaskIds :
        tasks[t].pc \in {"return", "raise"} =>
            LET rid == tasks[t].run_id
                st == objs[tasks[t].run].status
            IN  /\ Count(rid, "run_completed") + Count(rid, "run_failed") = 1
                /\ st = "succeeded" <=> /\ Count(rid, "run_completed") = 1
                                        /\ Count(rid, "run_failed") = 0
                /\ tasks[t].pc = "raise" =>
                      st = "failed" /\ Count(rid, "run_failed") = 1

\* -------------------------------------------------------- node_done is last
\* C16: in every journal, a node_done event of step n is the last event that
\* bears step n.
NodeDoneLast ==
    \A rid \in DOMAIN events :
        \A i \in 1..Len(events[rid]) :
            events[rid][i].type = "node_done" =>
                \A j \in (i + 1)..Len(events[rid]) :
                    events[rid][j].step # events[rid][i].step

\* ------------------------------------------------------------ tools/files.py
\* The names a path is made of: the parent and current directory entries, a
\* file, the directories of the safe root and a sibling of the safe root whose
\* name begins with the safe root's name.
Names == {"..", ".", "app.py", "src", "examples", "sample_repo", "sample_repo2"}

\* The characters of a name.
Chars(n) ==
    CASE n = ".." -> <<".", ".">>
      [] n = "." -> <<".">>
      [] n = "app.py" -> <<"a", "p", "p", ".", "p", "y">>
      [] n = "src" -> <<"s", "r", "c">>
      [] n = "examples" -> <<"e", "x", "a", "m", "p", "l", "e", "s">>
      [] n = "sample_repo" -> <<"s", "a", "m", "p", "l", "e", "_", "r", "e", "p", "o">>
      [] n = "sample_repo2" ->
            <<"s", "a", "m", "p", "l", "e", "_", "r", "e", "p", "o", "2">>

\* SAFE_ROOT = Path(__file__).parent.parent / "examples" / "sample_repo", as
\* the components of an absolute path.
SAFE_ROOT == <<"src", "examples", "sample_repo">>

\* SAFE_ROOT / path: an absolute path replaces the left operand, a relative
\* one is appended to it.
Join(root, path) == IF path.abs THEN path.parts ELSE root \o path.parts

\* Path.resolve() of an absolute path without symbolic links: "." is dropped and
\* ".." removes the component before it (the root is its own parent).
RECURSIVE Normal(_, _)
Normal(done, parts) ==
    IF parts = <<>> THEN done
    ELSE IF Head(parts) = "." THEN Normal(done, Tail(parts))
    ELSE IF Head(parts) = ".."
         THEN Normal(IF done = <<>> THEN <<>> ELSE SubSeq(done, 1, Len(done) - 1),
                     Tail(parts))
         ELSE Normal(Append(done, Head(parts)), Tail(parts))

resolve(parts) == Normal(<<>>, parts)

\* str() of an absolute path, as its characters.
Str(parts) ==
    IF parts = <<>> THEN <<"/">>
    ELSE Flatten([i \in 1..Len(parts) |-> <<"/">> \o Chars(parts[i])])

\* str.startswith
startswith(s, prefix) ==
    Len(prefix) <= Len(s) /\ SubSeq(s, 1, Len(prefix)) = prefix

\* The check of read and write (lines 10-12 and 25-27): the resolved path and
\* whether ValueError is raised.
Checked(path) ==
    LET full_path == resolve(Join(SAFE_ROOT, path))
    IN  [full_path |-> full_path,
         raised |-> ~startswith(Str(full_path), Str(SAFE_ROOT))]

\* files.read: raises, or goes on to open full_path for reading.
read(path) ==
    LET c == Checked(path)
    IN  [op |-> "read", full_path |-> c.full_path,
         outcome |-> IF c.raised THEN "ValueError" ELSE "opened"]

\* files.write: raises, or goes on to make the parent directories of
\* full_path and to write the file.
write(path) ==
    LET c == Checked(path)
    IN  [op |-> "write", full_path |-> c.full_path,
         outcome |-> IF c.raised THEN "ValueError" ELSE "written"]

RECURSIVE SeqsUpTo(_, _)
SeqsUpTo(S, n) ==
    IF n = 0 THEN {<<>>}
    ELSE LET shorter == SeqsUpTo(S, n - 1)
         IN  shorter \cup {Append(s, x) : s \in shorter, x \in S}

\* The path arguments: relative or absolute, of at most MaxParts components.
Paths == [abs : BOOLEAN, parts : SeqsUpTo(Names, MaxParts)]

InitFiles ==
    /\ BootEngine(0)
    /\ probe \in [path : Paths, called : {FALSE}, result : {read([abs |-> FALSE, parts |-> <<>>])}]

FilesRead ==
    /\ ~probe.called
    /\ probe' = [probe EXCEPT !.called = TRUE, !.result = read(probe.path)]
    /\ UNCHANGED engineVars

FilesWrite ==
    /\ ~probe.called
    /\ probe' = [probe EXCEPT !.called = TRUE, !.result = write(probe.path)]
    /\ UNCHANGED engineVars

SpecFiles == InitFiles /\ [][FilesRead \/ FilesWrite]_vars

\* The resolved path is the safe root or lies under it.
Inside(full_path) ==
    /\ Len(full_path) >= Len(SAFE_ROOT)
    /\ SubSeq(full_path, 1, Len(SAFE_ROOT)) = SAFE_ROOT

\* C17: files.read and files.write raise the path-escape error for every path
\* that resolves outside the safe root.
EscapeRejected ==
    probe.called /\ ~Inside(probe.result.full_path) =>
        probe.result.outcome = "ValueError"

\* ---------------------------------------------------------------- routing.py
\* The token count above which the large model is chosen.
Threshold == 60000

\* The steps whose model is the large one whatever the token count.
CriticalSteps == {"aggregator", "react"}

\* choose_model with a step test that is never met.
choose_model_tokens_only(tokens_needed, step) ==
    [model |-> IF tokens_needed > Threshold THEN "gpt-4.1" ELSE "small-fast",
     tokens |-> tokens_needed,
     cost_usd |-> IF tokens_needed > Threshold THEN "0.015" ELSE "0.0005",
     step |-> step]

\* choose_model(tokens_needed, step, pool): pool is replaced by DEFAULT_POOL
\* when it is None and is not read after that.
choose_model(tokens_needed, step) ==
    IF tokens_needed > Threshold \/ step \in CriticalSteps
    THEN [model |-> "gpt-4.1", tokens |-> tokens_needed, cost_usd |-> "0.015",
          step |-> step]
    ELSE [model |-> "small-fast", tokens |-> tokens_needed, cost_usd |-> "0.0005",
          step |-> step]

\* The step arguments: the nodes of the executor, "react", and the step of an
\* unknown node.
Steps == {"planner", "py_fixer", "fe_fixer", "test_writer", "aggregator",
          "tester", "security", "release", "react", "lint"}

\* The tokens_needed arguments.
Tokens == {0} \cup MinTokens..MaxTokens

InitRoute ==
    /\ BootEngine(0)
    /\ probe \in [tokens_needed : Tokens, step : Steps, results : {<<>>}]

\* model_choice = choose_model(tokens, node)
Route ==
    /\ Len(probe.results) < MaxCalls
    /\ probe' = [probe EXCEPT
                    !.results = Append(@, choose_model(probe.tokens_needed, probe.step))]
    /\ UNCHANGED engineVars

SpecRoute == InitRoute /\ [][Route]_vars

\* C19: every call of choose_model with the default pool returns gpt-4.1
\* exactly when tokens_needed is above 60000 or the step is aggregator or
\* react, and small-fast otherwise; the returned tokens and step are the
\* arguments; repeated calls with the same arguments return the same record.
RouteLaw ==
    \A i \in 1..Len(probe.results) :
        LET r == probe.results[i]
            large == probe.tokens_needed > 60000 \/ probe.step \in {"aggregator", "react"}
        IN  /\ r.model = "gpt-4.1" <=> large
            /\ r.model = "small-fast" <=> ~large
            /\ r.tokens = probe.tokens_needed
            /\ r.step = probe.step
            /\ r = probe.results[1]

\* choose_model was called twice for a critical step below the threshold.
RouteLawReached ==
    /\ Len(probe.results) = 2
    /\ probe.step = "aggregator"
    /\ probe.tokens_needed = 60000
    /\ probe.results[2].model = "gpt-4.1"

\* ------------------------------------------------------------- cancellation
\* An external caller that shares the run record sets run["status"] =
\* "failed" while execute_graph is suspended in asyncio.gather between the
\* start and the end of the scheduler loop.  probe keeps the cancelled run.
Cancel(rid) ==
    /\ probe = <<>>
    /\ loop = NoTask
    /\ \E t \in TaskIds : tasks[t].run_id = rid /\ tasks[t].pc \in {"gather", "gathered"}
    /\ Status(rid) = "running"
    /\ objs' = [objs EXCEPT ![runs[rid]].status = "failed"]
    /\ probe' = <<rid>>
    /\ UNCHANGED <<graphs, runs, events, disk, tasks, loop, faults, nruns>>

NextCancel ==
    \/ NextDefault
    \/ \E rid \in DOMAIN runs : Cancel(rid)

\* Runs of the default graph with an external cancellation.
SpecCancel == Init /\ [][NextCancel]_vars

\* The number of events of node invocations in the journal of run rid.
NodeEventCount(J, rid) ==
    Cardinality({i \in 1..Len(J[rid]) : J[rid][i].step # "system"})

\* The batch of run rid given to asyncio.gather has not run yet.
BatchInFlight(rid) ==
    \E t \in TaskIds : tasks[t].run_id = rid /\ tasks[t].pc = "gather"

\* C18: once an executing run has been cancelled by setting its status to
\* failed, the status stays failed, and no step other than the batch already
\* in flight appends an event of a node invocation to its journal.
CancelStops ==
    [][probe # <<>> =>
          /\ objs'[runs[probe[1]]].status = "failed"
          /\ ~BatchInFlight(probe[1]) =>
                NodeEventCount(events', probe[1]) = NodeEventCount(events, probe[1])]_vars

\* ------------------------------------------------------ one invocation's events
\* Runs of the default graph, each replayed while its execution is suspended:
\* the replay request arrives when no other replay is executing, and its
\* execute_graph runs interleaved with the worker's.
NextPair ==
    \/ create_run(DefaultGraph)
    \/ background_worker
    \/ \E t \in 1..MaxReplays, rid \in DOMAIN runs :
           /\ \A u \in ReplayTasks : tasks[u].pc \in {"new", "ok", "error"}
           /\ Status(rid) = "running"
           /\ ~IsChild(rid)
           /\ replay_from(t, rid, "tester")
    \/ \E t \in ReplayTasks : ReplayEnd(t)
    \/ \E t \in TaskIds : execute_graph(t)

\* At most one fault in a behaviour.
SpecPair == Boot(MaxFaults - 1) /\ [][NextPair]_vars

\* The event is the handler's event of an invocation.
IsHandlerEvent(e) ==
    e.step # "system" /\ e.type \notin {"context_compiled", "node_done"}

\* C20: in every journal the events of one node invocation are contiguous and
\* in emission order: a handler event directly follows the context_compiled
\* of its step, and a node_done directly follows the handler event of its
\* step, which directly follows the context_compiled of its step.
InvocationContiguous ==
    \A rid \in DOMAIN events :
        LET evs == events[rid]
        IN  \A i \in 1..Len(evs) :
              /\ IsHandlerEvent(evs[i]) =>
                    /\ i > 1
                    /\ evs[i - 1].step = evs[i].step
                    /\ evs[i - 1].type = "context_compiled"
              /\ evs[i].type = "node_done" =>
                    /\ i > 2
                    /\ evs[i - 1].step = evs[i].step
                    /\ IsHandlerEvent(evs[i - 1])
                    /\ evs[i - 2].step = evs[i].step
                    /\ evs[i - 2].type = "context_compiled"

\* Two runs are executing at once and the fan-out batch of each has run.
ConcurrentBatches ==
    \E r1 \in DOMAIN runs, r2 \in DOMAIN runs :
        /\ r1 # r2
        /\ Status(r1) = "running"
        /\ Status(r2) = "running"
        /\ \E i \in Own(r1) : events[r1][i].step = "fe_fixer" /\ events[r1][i].type = "node_done"
        /\ \E i \in Own(r2) : events[r2][i].step = "fe_fixer" /\ events[r2][i].type = "node_done"

\* ------------------------------------------------- the shape of an invocation
\* The node names run_node has a handler for.
Handlers == {"planner", "py_fixer", "fe_fixer", "test_writer", "aggregator",
             "tester", "security", "release"}

\* C21: every node_done an execution appended is directly preceded by one
\* handler event of its step, itself directly preceded by the
\* context_compiled of its step; node_done carries the data of the handler
\* event; the handler event has type error exactly for a node name without a
\* handler; and a run of the graph lint -> release that ends succeeded has
\* gone on to release after the unknown node lint.
InvocationShape ==
    \A rid \in DOMAIN runs :
        /\ \A i \in Own(rid) :
              LET evs == events[rid]
              IN  evs[i].type = "node_done" =>
                    /\ i > 2
                    /\ evs[i - 2] = Event(rid, evs[i].step, "context_compiled", {})
                    /\ evs[i - 1].run_id = rid
                    /\ evs[i - 1].step = evs[i].step
                    /\ evs[i - 1].type \notin {"context_compiled", "node_done"}
                    /\ evs[i - 1].type = "error" <=> evs[i].step \notin Handlers
                    /\ evs[i].data = evs[i - 1].data
        /\ GraphOf(rid) = GraphDag("unknown") /\ Status(rid) = "succeeded" =>
              \E i \in Own(rid), j \in Own(rid) :
                  /\ i < j
                  /\ events[rid][i].step = "lint"
                  /\ events[rid][i].type = "node_done"
                  /\ events[rid][j].step = "release"
                  /\ events[rid][j].type = "node_done"

\* A run of the graph lint -> release ended succeeded.
UnknownNodeReached ==
    \E rid \in DOMAIN runs :
        /\ GraphOf(rid) = GraphDag("unknown")
        /\ Status(rid) = "succeeded"
        /\ Has(rid, "lint", "node_done")
        /\ Has(rid, "release", "release_complete")

\* ------------------------------------------------------- the manifest's total
\* C22: in every manifest compile_context returns, total_tokens is the sum of
\* the three token_estimate values of the manifest, and the estimates of
\* scratchpad and policy_docs are the lengths of their sections divided by 4,
\* as computed before enforcement.
TotalIsSum ==
    probe.called =>
        LET m == probe.manifest
        IN  /\ m.total_tokens = m.sections.scratchpad + m.sections.repo_snippets
                                  + m.sections.policy_docs
            /\ m.sections.scratchpad = probe.scratchpad \div 4
            /\ m.sections.policy_docs = 68 \div 4

\* compile_context trimmed repo_snippets to a shorter, non-empty section.
TrimReached ==
    /\ probe.called
    /\ probe.manifest.drops = <<"repo_snippets trimmed">>
    /\ probe.manifest.sections.repo_snippets > 0
    /\ probe.manifest.sections.repo_snippets < probe.repo_snippets \div 4

\* --------------------------------------------------------- the durable journal
\* C23: for every run whose durable journal holds every event its own
\* execution emitted (no durable write failed), the durable journal equals the
\* in-memory journal, the copied replay prefix included.
DurableEqualsMemory ==
    \A rid \in DOMAIN runs :
        AllWritten(rid) => Get(disk, rid) = events[rid]

\* ------------------------------------------------------------------ the worker
\* Runs of the default graph and of the cyclic graph, made by POST /runs only.
NextCycle ==
    \/ create_graph("cycle")
    \/ \E g \in {DefaultGraph, "cycle"} : create_run(g)
    \/ background_worker
    \/ execute_graph(Worker)

SpecCycle == Init /\ [][NextCycle]_vars

\* The worker never stops polling and a coroutine that can go on does.
FairCycle == SpecCycle /\ WF_vars(background_worker) /\ WF_vars(execute_graph(Worker))

AtMostOnce ==
    \A rid \in DOMAIN runs :
        \A i \in Own(rid), j \in Own(rid) :
            /\ events[rid][i].type = "node_done"
            /\ events[rid][j].type = "node_done"
            /\ events[rid][i].step = events[rid][j].step
            => i = j

\* ------------------------------------------------------- enabled children
\* C26: when run_completed has been emitted in a run that did not fail, every
\* edge A -> B whose source A completed, whose condition is met and whose
\* target B has all its join sources completed, has had B executed.
EnabledChildRuns ==
    \A rid \in DOMAIN runs :
        (Has(rid, "system", "run_completed") /\ ~Has(rid, "system", "run_failed")) =>
            LET dag == GraphOf(rid)
                G == Built[objs[runs[rid]].graph]
            IN  \A k \in 1..Len(dag) :
                    /\ Has(rid, dag[k].from_node, "node_done")
                    /\ Fired(dag[k], events[rid])
                    /\ dag[k].to_node \in DOMAIN G.join_groups =>
                          \A s \in G.join_groups[dag[k].to_node] : Has(rid, s, "node_done")
                    => Has(rid, dag[k].to_node, "node_done")

====
